---------------------------- MODULE Spec2Model ----------------------------
(***************************************************************************)
(* A model of the DynamoDB adapter for lucia (src/src/index.ts).           *)
(*                                                                         *)
(* Strings are sequences of one-character strings, so that the key         *)
(* encodings ('Session#' + id, 'Expires#' + seconds), the store's byte-wise *)
(* string comparison and JavaScript's split('#') are computed and not      *)
(* assumed.  An item is a function from attribute names to DynamoDB        *)
(* attribute values, [S |-> string] or [N |-> decimal string].             *)
(*                                                                         *)
(* The store is modelled as strongly consistent: a query on an index sees  *)
(* the table as it is at the moment of the request.  Every store request   *)
(* is one atomic step; the steps of concurrent calls interleave.           *)
(***************************************************************************)
EXTENDS Integers, Sequences, FiniteSets, TLC

VARIABLES
  table,    \* the DynamoDB table: a function from <<Pk value, Sk value>> to the item
  now,      \* the wall clock, in milliseconds since the epoch (Date.now())
  pc,       \* per caller: where its call stands ("idle": none, "done": it has ended)
  frame,    \* per caller: the arguments and local variables of its current call
  ret,      \* per caller: the outcome of its call, once it has ended
  batches,  \* per caller: the BatchWriteItem requests its current call has sent
  snap      \* <<the table when the running call began>> while that call runs alone

vars == <<table, now, pc, frame, ret, batches, snap>>

----------------------------------------------------------------------------
(* Bounds of the model *)

\* The clock stops at MaxNowSec seconds.
MaxNowSec == 11

\* The store returns at most MaxPage items in one page of a query.
MaxPage == 2

\* The bulk table holds up to 2 * MAX_BATCH_SIZE + MaxBulkExtra sessions.
MaxBulkExtra == 7

\* The expiry values whose sort keys are compared are 0..MaxEncoded seconds.
MaxEncoded == 12

----------------------------------------------------------------------------
(* Program constants *)

MAX_BATCH_SIZE == 25

\* Math.floor(date.getTime() / 1000) and new Date(expires * 1000)
MsPerSec == 1000

\* The default attribute names of the constructor.
pk == "Pk"
sk == "Sk"
gsi1pk == "Gs1Pk"
gsi1sk == "Gs1Sk"
gsi2pk == "Gs2Pk"
gsi2sk == "Gs2Sk"
expires == "Expires"

\* The options of the adapter under test: extraUserAttributes: ['HashedPassword'].
extraUserAttributes == {"HashedPassword"}
extraSessionAttributes == {}

KeyAttributeNames == {pk, sk, gsi1pk, gsi1sk, gsi2pk, gsi2sk, expires}

----------------------------------------------------------------------------
(* Strings *)

Str_Session == <<"S", "e", "s", "s", "i", "o", "n">>
Str_User == <<"U", "s", "e", "r">>
Str_SessionHash == Str_Session \o <<"#">>
Str_UserHash == Str_User \o <<"#">>
Str_ExpiresHash == <<"E", "x", "p", "i", "r", "e", "s", "#">>

\* The value of a JavaScript expression that is undefined.
Undefined == <<"undefined">>

\* The UTF-8 code of a character: the store compares strings byte by byte.
CharCode(c) ==
  CASE c = "#" -> 35
    [] c = "0" -> 48 [] c = "1" -> 49 [] c = "2" -> 50 [] c = "3" -> 51
    [] c = "4" -> 52 [] c = "5" -> 53 [] c = "6" -> 54 [] c = "7" -> 55
    [] c = "8" -> 56 [] c = "9" -> 57
    [] c = "E" -> 69 [] c = "S" -> 83 [] c = "U" -> 85
    [] c = "a" -> 97 [] c = "b" -> 98 [] c = "e" -> 101 [] c = "i" -> 105
    [] c = "n" -> 110 [] c = "o" -> 111 [] c = "p" -> 112 [] c = "r" -> 114
    [] c = "s" -> 115 [] c = "t" -> 116 [] c = "u" -> 117 [] c = "x" -> 120

Digits == <<"0", "1", "2", "3", "4", "5", "6", "7", "8", "9">>

\* `${n}` for an integer n >= 0: its decimal digits, without padding.
RECURSIVE ToDecimal(_)
ToDecimal(n) ==
  IF n < 10 THEN <<Digits[n + 1]>>
  ELSE ToDecimal(n \div 10) \o <<Digits[(n % 10) + 1]>>

DigitValue(c) == CHOOSE d \in 0..9 : Digits[d + 1] = c

\* Number(s) for a string of decimal digits.
RECURSIVE ParseDecimal(_)
ParseDecimal(s) ==
  IF Len(s) = 0 THEN 0
  ELSE 10 * ParseDecimal(SubSeq(s, 1, Len(s) - 1)) + DigitValue(s[Len(s)])

\* a < b in the store's order of strings: the first differing byte decides,
\* and a proper prefix is smaller.
RECURSIVE StrLess(_, _)
StrLess(a, b) ==
  IF Len(b) = 0 THEN FALSE
  ELSE IF Len(a) = 0 THEN TRUE
  ELSE IF a[1] = b[1] THEN StrLess(Tail(a), Tail(b))
  ELSE CharCode(a[1]) < CharCode(b[1])

\* begins_with(s, prefix)
BeginsWith(s, prefix) ==
  /\ Len(s) >= Len(prefix)
  /\ SubSeq(s, 1, Len(prefix)) = prefix

\* s.split(sep): the pieces of s between the occurrences of the character sep.
RECURSIVE Split(_, _)
Split(s, sep) ==
  IF \A i \in 1..Len(s) : s[i] # sep THEN <<s>>
  ELSE LET i == CHOOSE j \in 1..Len(s) :
                  s[j] = sep /\ \A k \in 1..(j - 1) : s[k] # sep
       IN <<SubSeq(s, 1, i - 1)>> \o Split(SubSeq(s, i + 1, Len(s)), sep)

\* s.split('#')[1]
SplitHash1(s) ==
  LET parts == Split(s, "#")
  IN IF Len(parts) >= 2 THEN parts[2] ELSE Undefined


----------------------------------------------------------------------------
(* Values: JavaScript values and DynamoDB attribute values *)

\* A JavaScript string and a JavaScript number.
JsStr(s) == [str |-> s]
JsNum(n) == [num |-> n]
IsJsStr(v) == "str" \in DOMAIN v

\* The key of an item in the table: <<partition key value, sort key value>>.
SessionKey(id) == <<Str_SessionHash \o id, Str_Session>>
UserKey(id) == <<Str_UserHash \o id, Str_User>>

\* marshall(obj): a string becomes {S: s}, a number becomes {N: `${n}`}.
Marshall(obj) ==
  [k \in DOMAIN obj |->
     IF IsJsStr(obj[k]) THEN [S |-> obj[k].str]
     ELSE [N |-> ToDecimal(obj[k].num)]]

\* unmarshall(item): {S: s} becomes the string, {N: d} becomes Number(d).
Unmarshall(item) ==
  [k \in DOMAIN item |->
     IF "S" \in DOMAIN item[k] THEN JsStr(item[k].S)
     ELSE JsNum(ParseDecimal(item[k].N))]

\* {...a, ...b}: the properties of b override those of a.
Spread(a, b) == b @@ a

----------------------------------------------------------------------------
(* Schema: sessions and users to items and back *)

\* Math.floor(expiresAt.getTime() / 1000)
ExpiresSeconds(expiresAt) == expiresAt \div MsPerSec

\* `Expires#${expires}`
ExpiresKey(seconds) == Str_ExpiresHash \o ToDecimal(seconds)

\* The Item of setSession's PutItemCommand.
SessionToItem(session) ==
  LET secs == ExpiresSeconds(session.expiresAt)
      base == (pk :> JsStr(Str_SessionHash \o session.id))
              @@ (sk :> JsStr(Str_Session))
              @@ (gsi1pk :> JsStr(Str_UserHash \o session.userId))
              @@ (gsi1sk :> JsStr(ExpiresKey(secs)))
              @@ (gsi2pk :> JsStr(Str_Session))
              @@ (gsi2sk :> JsStr(ExpiresKey(secs)))
              @@ (expires :> JsNum(secs))
  IN Marshall(Spread(base, session.attributes))

\* getTime() of an Invalid Date: NaN.
InvalidDate == "Invalid Date"

\* The number a value becomes as an operand of '*': <<n>>, or <<>> for NaN.
\* undefined gives NaN, a string gives the number it spells ('' gives 0).
ToNumber(obj, k) ==
  IF k \notin DOMAIN obj THEN <<>>
  ELSE IF ~IsJsStr(obj[k]) THEN <<obj[k].num>>
  ELSE IF \A i \in 1..Len(obj[k].str) :
            \E d \in 1..Len(Digits) : Digits[d] = obj[k].str[i]
       THEN <<ParseDecimal(obj[k].str)>>
       ELSE <<>>

\* new Date(expires): the seconds taken for milliseconds.
DateOfSecondsUnscaled(obj, k) ==
  LET n == ToNumber(obj, k)
  IN IF n = <<>> THEN InvalidDate ELSE n[1]

\* new Date(expires * 1000), by its getTime().
DateOfSeconds(obj, k) ==
  LET n == ToNumber(obj, k)
  IN IF n = <<>> THEN InvalidDate ELSE n[1] * MsPerSec

\* pk.split('#') and gsi1pk.split('#') throw a TypeError when the attribute
\* is absent from the item (undefined) or is no string.
ItemToSessionThrows(item) ==
  LET unmarshalled == Unmarshall(item)
  IN \E k \in {pk, gsi1pk} :
       k \notin DOMAIN unmarshalled \/ ~IsJsStr(unmarshalled[k])

\* itemToSession, when it does not throw
ItemToSession(item) ==
  LET unmarshalled == Unmarshall(item)
      rest == DOMAIN unmarshalled \ KeyAttributeNames
  IN [id |-> SplitHash1(unmarshalled[pk].str),
      userId |-> SplitHash1(unmarshalled[gsi1pk].str),
      expiresAt |-> DateOfSeconds(unmarshalled, expires),
      attributes |-> [k \in rest \ extraSessionAttributes |-> unmarshalled[k]]]

\* itemToUser without the filter on extraUserAttributes.
ItemToUserUnfiltered(item) ==
  LET unmarshalled == Unmarshall(item)
      rest == DOMAIN unmarshalled \ KeyAttributeNames
  IN [id |-> SplitHash1(unmarshalled[pk].str),
      attributes |-> [k \in rest |-> unmarshalled[k]]]

\* itemToUser
ItemToUser(item) ==
  LET unmarshalled == Unmarshall(item)
      rest == DOMAIN unmarshalled \ KeyAttributeNames
  IN [id |-> SplitHash1(unmarshalled[pk].str),
      attributes |-> [k \in rest \ extraUserAttributes |-> unmarshalled[k]]]

----------------------------------------------------------------------------
(* The store: the requests of the DynamoDB client on one table *)

\* The item of a session filed under the key of its user.
KeyOfOwner(item) == <<item[gsi1pk].S, Str_User>>

KeyOf(item) == <<item[pk].S, item[sk].S>>

\* A write that sets the attributes of the item on the stored one and
\* keeps the others of it.
PutItemMerged(tbl, item) ==
  IF KeyOf(item) \in DOMAIN tbl
  THEN [tbl EXCEPT ![KeyOf(item)] = item @@ @]
  ELSE (KeyOf(item) :> item) @@ tbl

\* PutItem: the item replaces whatever the table holds under its key.
PutItem(tbl, item) == (KeyOf(item) :> item) @@ tbl

\* DeleteItem and a DeleteRequest of BatchWriteItem: no error when the key is absent.
DeleteItem(tbl, key) == [k \in DOMAIN tbl \ {key} |-> tbl[k]]

DeleteItems(tbl, ks) == [k \in DOMAIN tbl \ ks |-> tbl[k]]

\* GetItem: <<>> when the key is absent, <<item>> otherwise.
GetItem(tbl, key) == IF key \in DOMAIN tbl THEN <<tbl[key]>> ELSE <<>>

\* The UpdateItemCommand sent without its ConditionExpression.
ConditionDropped(tbl, key) == TRUE

\* The ConditionExpression '#pk = :pk AND #sk = :sk' of updateSessionExpiration,
\* evaluated on the item under the key: false when there is no item.
ConditionHolds(tbl, key) ==
  /\ key \in DOMAIN tbl
  /\ tbl[key][pk] = [S |-> key[1]]
  /\ tbl[key][sk] = [S |-> key[2]]

\* An update that replaces the item by its key and the attributes set.
UpdateItemReplacing(tbl, key, sets) ==
  (key :> (sets @@ (pk :> [S |-> key[1]]) @@ (sk :> [S |-> key[2]]))) @@ tbl

\* UpdateItem with 'SET ...': the attributes are set on the item under the
\* key; when there is none, the store creates one from the key and the attributes.
UpdateItem(tbl, key, sets) ==
  IF key \in DOMAIN tbl THEN [tbl EXCEPT ![key] = sets @@ @]
  ELSE (key :> (sets @@ (pk :> [S |-> key[1]]) @@ (sk :> [S |-> key[2]]))) @@ tbl

\* An update that leaves the sort key of the second index as it is.
ExpiryUpdateWithoutGs2(seconds) ==
  (gsi1sk :> [S |-> ExpiresKey(seconds)])
  @@ (expires :> [N |-> ToDecimal(seconds)])

\* The ExpressionAttributeValues that updateSessionExpiration sets.
ExpiryUpdate(seconds) ==
  (gsi1sk :> [S |-> ExpiresKey(seconds)])
  @@ (gsi2sk :> [S |-> ExpiresKey(seconds)])
  @@ (expires :> [N |-> ToDecimal(seconds)])

\* Query on the table with '#pk = :pk AND #sk = :sk': the Items of the response.
QueryPrimary(tbl, key) == GetItem(tbl, key)

\* The keys of the items a secondary index holds: those that carry both key
\* attributes of the index as strings.
IndexKeys(tbl, pkAttr, skAttr) ==
  {k \in DOMAIN tbl :
     /\ pkAttr \in DOMAIN tbl[k] /\ "S" \in DOMAIN tbl[k][pkAttr]
     /\ skAttr \in DOMAIN tbl[k] /\ "S" \in DOMAIN tbl[k][skAttr]}

\* The query with begins_with on the partition key of the index as well.
Gs1MatchesByPrefix(tbl, userId) ==
  {k \in IndexKeys(tbl, gsi1pk, gsi1sk) :
     /\ BeginsWith(tbl[k][gsi1pk].S, Str_UserHash \o userId)
     /\ BeginsWith(tbl[k][gsi1sk].S, Str_ExpiresHash)}

\* '#gs1pk = :gs1pk AND begins_with(#gs1sk, :gs1sk_prefix)' on index Gs1.
Gs1Matches(tbl, userId) ==
  {k \in IndexKeys(tbl, gsi1pk, gsi1sk) :
     /\ tbl[k][gsi1pk].S = Str_UserHash \o userId
     /\ BeginsWith(tbl[k][gsi1sk].S, Str_ExpiresHash)}

\* '#gs2pk = :gs2pk AND #gs2sk < :gs2sk_end' on index Gs2.
Gs2Matches(tbl, nowSeconds) ==
  {k \in IndexKeys(tbl, gsi2pk, gsi2sk) :
     /\ tbl[k][gsi2pk].S = Str_Session
     /\ StrLess(tbl[k][gsi2sk].S, ExpiresKey(nowSeconds))}

\* Where an item stands in an index: by the index sort key, then by its key.
Position(tbl, k, skAttr) == [sk |-> tbl[k][skAttr].S, key |-> k]

PositionLess(a, b) ==
  \/ StrLess(a.sk, b.sk)
  \/ /\ a.sk = b.sk
     /\ \/ StrLess(a.key[1], b.key[1])
        \/ a.key[1] = b.key[1] /\ StrLess(a.key[2], b.key[2])

\* The position before every item: the token of an empty first page.
FirstPosition == [sk |-> <<>>, key |-> <<<<>>, <<>>>>]

\* The matching keys after the ExclusiveStartKey (all of them when there is none).
AfterStart(tbl, matches, skAttr, start) ==
  IF start = <<>> THEN matches
  ELSE {k \in matches : PositionLess(start[1], Position(tbl, k, skAttr))}

\* The first n keys of a set in index order.
RECURSIVE FirstInOrder(_, _, _, _)
FirstInOrder(tbl, ks, skAttr, n) ==
  IF n = 0 \/ ks = {} THEN <<>>
  ELSE LET first == CHOOSE k \in ks : \A j \in ks \ {k} :
                       PositionLess(Position(tbl, k, skAttr), Position(tbl, j, skAttr))
       IN <<first>> \o FirstInOrder(tbl, ks \ {first}, skAttr, n - 1)

\* One page of a query: the next n matching items in index order, and a
\* LastEvaluatedKey (<<>>: none) when the store says that more may follow.
QueryPage(tbl, matches, skAttr, start, n, more) ==
  LET page == FirstInOrder(tbl, AfterStart(tbl, matches, skAttr, start), skAttr, n)
  IN [Items |-> [i \in 1..Len(page) |-> tbl[page[i]]],
      LastEvaluatedKey |->
        IF ~more THEN <<>>
        ELSE IF Len(page) > 0 THEN <<Position(tbl, page[Len(page)], skAttr)>>
        ELSE IF start = <<>> THEN <<FirstPosition>>
        ELSE start]

\* The page sizes and continuation flags the store may answer with: any
\* number of the remaining items up to MaxPage, and a LastEvaluatedKey
\* whenever items remain (the store may also give one with the last items).
PageChoices(tbl, matches, skAttr, start) ==
  LET left == Cardinality(AfterStart(tbl, matches, skAttr, start))
  IN {c \in (0..MaxPage) \X BOOLEAN :
        /\ c[1] <= left
        /\ c[1] < left => c[2]}

\* The kinds of a page, as the frames record them.
PageKinds(res) ==
  IF res.LastEvaluatedKey = <<>> THEN {}
  ELSE IF Len(res.Items) = 0 THEN {"continued", "empty"}
  ELSE {"continued"}

\* ProjectionExpression '#pk, #sk'
ProjectKey(item) == [a \in {pk, sk} |-> item[a]]


----------------------------------------------------------------------------
(* The callers and the values they pass *)

Procs == {"p1", "p2"}

SessionIds == {<<"s">>, <<"t">>}

UserIds == {<<"a">>, <<"a", "#", "b">>}

\* expiresAt of a session, in milliseconds since the epoch.
ExpiryChoices == {9 * MsPerSec + 500, 10 * MsPerSec, 11 * MsPerSec}

NoAttributes == [k \in {} |-> JsStr(<<>>)]

SessionAttributeChoices == {NoAttributes}

\* The session ids that concurrent callers use.
SharedSessionIds == {<<"s">>}

\* The Session values with an id in ids.
Sessions(ids) ==
  [id : ids, userId : UserIds, expiresAt : ExpiryChoices,
   attributes : SessionAttributeChoices]

\* A user record, written by the application and not by the adapter
\* (as the test's beforeEach hook does).
UserItem(id) ==
  Marshall((pk :> JsStr(Str_UserHash \o id))
           @@ (sk :> JsStr(Str_User))
           @@ ("HashedPassword" :> JsStr(<<"x">>))
           @@ ("username" :> JsStr(id)))

UserTable(ids) == [k \in {UserKey(id) : id \in ids} |-> UserItem(SubSeq(k[1], 6, Len(k[1])))]

\* Failures of the transport or of the store, thrown by client.send.
StoreErrors == {"ProvisionedThroughputExceededException"}

----------------------------------------------------------------------------
(* The state of a call *)

\* The arguments and the local variables of a call, and what the model
\* records of its requests: failure, the error the store answered one of
\* them with (<<>>: none); pages, the kinds of query pages it received
\* ("continued": one with a LastEvaluatedKey, "empty": one with a
\* LastEvaluatedKey and no items).
NoFrame ==
  [op |-> "none", id |-> <<>>, expiresAt |-> 0, now |-> 0,
   keys |-> <<>>, lek |-> <<>>, i |-> 0, session |-> <<>>, sessions |-> <<>>,
   failure |-> <<>>, pages |-> {}]

NewFrame(op, id, expiresAt) ==
  [NoFrame EXCEPT !.op = op, !.id = id, !.expiresAt = expiresAt, !.now = now]

\* The outcome of a call: what it returned, or the error it threw.
\* session and user are <<>> for null and <<v>> for a value v.
NoRet ==
  [status |-> "none", error |-> "", session |-> <<>>, user |-> <<>>, sessions |-> <<>>]

Returned == [NoRet EXCEPT !.status = "ok"]

Threw(e) == [NoRet EXCEPT !.status = "error", !.error = e]

\* A call begins.  The table is remembered when no other call is running;
\* a call that begins beside a running one ends the remembering.
Begin(p, f, next) ==
  /\ pc[p] = "idle"
  /\ frame' = [frame EXCEPT ![p] = f]
  /\ pc' = [pc EXCEPT ![p] = next]
  /\ snap' = IF \A q \in DOMAIN pc \ {p} : pc[q] = "idle" THEN <<table>> ELSE <<>>
  /\ UNCHANGED <<ret, batches>>

\* A call ends with outcome r.
End(p, r) ==
  /\ pc' = [pc EXCEPT ![p] = "done"]
  /\ ret' = [ret EXCEPT ![p] = r]

\* The rejection caught and the request sent again.
PropagateRetry(p, e) == UNCHANGED <<pc, ret>>

\* The rejection caught and another error thrown in its place.
PropagateWrapped(p, e) == End(p, Threw("AdapterError"))

\* The rejection of an awaited client.send(...) is not caught: the method
\* ends there, and its caller gets the error of the store.
Propagate(p, e) == End(p, Threw(e))

\* The store answers a request of p's call with the error e.
RequestFailed(p, e) ==
  /\ frame' = [frame EXCEPT ![p].failure = <<e>>]
  /\ Propagate(p, e)

\* The caller has its outcome and is free for its next call.
Return(p) ==
  /\ pc[p] = "done"
  /\ pc' = [pc EXCEPT ![p] = "idle"]
  /\ frame' = [frame EXCEPT ![p] = NoFrame]
  /\ ret' = [ret EXCEPT ![p] = NoRet]
  /\ batches' = [batches EXCEPT ![p] = <<>>]
  /\ snap' = <<>>
  /\ UNCHANGED <<table, now>>

----------------------------------------------------------------------------
(* deleteSession *)

CallDeleteSession(p, sessionId) ==
  /\ Begin(p, NewFrame("deleteSession", sessionId, 0), "ds_send")
  /\ UNCHANGED <<table, now>>

\* The DeleteItemCommand sent with a condition that the item exists.
SendDeleteItemConditional(p, sessionId) ==
  \/ \E e \in StoreErrors :
       /\ RequestFailed(p, e)
       /\ UNCHANGED table
  \/ /\ SessionKey(sessionId) \notin DOMAIN table
     /\ RequestFailed(p, "ConditionalCheckFailedException")
     /\ UNCHANGED table
  \/ /\ SessionKey(sessionId) \in DOMAIN table
     /\ table' = DeleteItem(table, SessionKey(sessionId))
     /\ End(p, Returned)
     /\ UNCHANGED frame

\* await this.client.send(new DeleteItemCommand(...))
SendDeleteItem(p, sessionId) ==
  \/ \E e \in StoreErrors :
       /\ RequestFailed(p, e)
       /\ UNCHANGED table
  \/ /\ table' = DeleteItem(table, SessionKey(sessionId))
     /\ End(p, Returned)
     /\ UNCHANGED frame

DsSend(p) ==
  /\ pc[p] = "ds_send"
  /\ SendDeleteItem(p, frame[p].id)
  /\ UNCHANGED <<now, batches, snap>>

----------------------------------------------------------------------------
(* setSession *)

CallSetSession(p, session) ==
  /\ Begin(p, [NewFrame("setSession", session.id, session.expiresAt)
                 EXCEPT !.session = <<session>>], "ss_send")
  /\ UNCHANGED <<table, now>>

\* await this.client.send(new PutItemCommand(...))
SsSend(p) ==
  /\ pc[p] = "ss_send"
  /\ \/ \E e \in StoreErrors :
          /\ RequestFailed(p, e)
          /\ UNCHANGED table
     \/ /\ table' = PutItem(table, SessionToItem(frame[p].session[1]))
        /\ End(p, Returned)
        /\ UNCHANGED frame
  /\ UNCHANGED <<now, batches, snap>>

----------------------------------------------------------------------------
(* updateSessionExpiration *)

\* The comparison of updateSessionExpiration turned around.
IsFutureInverted(expiresAt, clock) == expiresAt < clock

\* expiresAt.getTime() > Date.now()
IsFuture(expiresAt, clock) == expiresAt > clock

CallUpdateSessionExpiration(p, sessionId, expiresAt) ==
  /\ Begin(p, NewFrame("updateSessionExpiration", sessionId, expiresAt),
           IF IsFuture(expiresAt, now) THEN "use_update" ELSE "use_delete")
  /\ UNCHANGED <<table, now>>

\* await this.client.send(new UpdateItemCommand(...)): the store rejects the
\* request when the condition does not hold.
UseUpdate(p) ==
  LET key == SessionKey(frame[p].id)
      secs == ExpiresSeconds(frame[p].expiresAt)
  IN /\ pc[p] = "use_update"
     /\ \/ \E e \in StoreErrors :
             /\ RequestFailed(p, e)
             /\ UNCHANGED table
        \/ /\ ~ConditionHolds(table, key)
           /\ RequestFailed(p, "ConditionalCheckFailedException")
           /\ UNCHANGED table
        \/ /\ ConditionHolds(table, key)
           /\ table' = UpdateItem(table, key, ExpiryUpdate(secs))
           /\ End(p, Returned)
           /\ UNCHANGED frame
     /\ UNCHANGED <<now, batches, snap>>

\* else: await this.deleteSession(sessionId)
UseDelete(p) ==
  /\ pc[p] = "use_delete"
  /\ SendDeleteItem(p, frame[p].id)
  /\ UNCHANGED <<now, batches, snap>>

----------------------------------------------------------------------------
(* getSessionAndUser *)

CallGetSessionAndUser(p, sessionId) ==
  /\ Begin(p, NewFrame("getSessionAndUser", sessionId, 0), "gsu_session")
  /\ UNCHANGED <<table, now>>

\* The QueryCommand on the key of the session, and the conversion of its item.
GsuQuerySession(p) ==
  LET items == QueryPrimary(table, SessionKey(frame[p].id))
  IN /\ pc[p] = "gsu_session"
     /\ \/ \E e \in StoreErrors : RequestFailed(p, e)
        \/ /\ Len(items) = 0
           /\ End(p, Returned)
           /\ UNCHANGED frame
        \/ /\ Len(items) # 0
           /\ IF ItemToSessionThrows(items[1])
              THEN /\ End(p, Threw("TypeError"))
                   /\ UNCHANGED frame
              ELSE /\ frame' = [frame EXCEPT ![p].session = <<ItemToSession(items[1])>>]
                   /\ pc' = [pc EXCEPT ![p] = "gsu_user"]
                   /\ UNCHANGED ret
     /\ UNCHANGED <<table, now, batches, snap>>

\* The GetItemCommand for the user of the session (no getUser option is set).
GsuGetUser(p) ==
  LET session == frame[p].session[1]
      userRes == GetItem(table, UserKey(session.userId))
  IN /\ pc[p] = "gsu_user"
     /\ \/ \E e \in StoreErrors : RequestFailed(p, e)
        \/ /\ End(p, [Returned EXCEPT
                        !.session = <<session>>,
                        !.user = IF Len(userRes) = 0 THEN <<>>
                                 ELSE <<ItemToUser(userRes[1])>>])
           /\ UNCHANGED frame
     /\ UNCHANGED <<table, now, batches, snap>>

----------------------------------------------------------------------------
(* getUserSessions *)

CallGetUserSessions(p, userId) ==
  /\ Begin(p, NewFrame("getUserSessions", userId, 0), "gus_query")
  /\ UNCHANGED <<table, now>>

\* The query sent again without the LastEvaluatedKey of the last page.
ExclusiveStartKeyDropped(f) == <<>>

\* Every query after the first sent from the beginning of the index.
ExclusiveStartKeyRewound(f) == IF f.lek = <<>> THEN <<>> ELSE <<FirstPosition>>

\* if (_lastEvaluatedKey) commandInput.ExclusiveStartKey = _lastEvaluatedKey
ExclusiveStartKey(f) == f.lek

\* One turn of the do-while loop: a QueryCommand on Gs1 from the last
\* LastEvaluatedKey, the items of the page converted and pushed.
GusQuery(p) ==
  LET matches == Gs1Matches(table, frame[p].id)
  IN /\ pc[p] = "gus_query"
     /\ \/ \E e \in StoreErrors : RequestFailed(p, e)
        \/ \E c \in PageChoices(table, matches, gsi1sk, ExclusiveStartKey(frame[p])) :
             LET res == QueryPage(table, matches, gsi1sk, ExclusiveStartKey(frame[p]), c[1], c[2])
                 sessions == frame[p].sessions
                             \o [i \in 1..Len(res.Items) |-> ItemToSession(res.Items[i])]
             IN IF \E i \in 1..Len(res.Items) : ItemToSessionThrows(res.Items[i])
                THEN /\ End(p, Threw("TypeError"))
                     /\ UNCHANGED frame
                ELSE /\ frame' = [frame EXCEPT ![p].sessions = sessions,
                                               ![p].lek = res.LastEvaluatedKey,
                                               ![p].pages = @ \cup PageKinds(res)]
                     /\ IF res.LastEvaluatedKey # <<>>
                        THEN UNCHANGED <<pc, ret>>
                        ELSE End(p, [Returned EXCEPT !.sessions = sessions])
     /\ UNCHANGED <<table, now, batches, snap>>

----------------------------------------------------------------------------
(* The batch-delete loop of deleteUserSessions and deleteExpiredSessions *)

Min(a, b) == IF a < b THEN a ELSE b

\* keys.slice(i + 1, i + MAX_BATCH_SIZE): the first key of each chunk is left out.
BatchSliceOffByOne(keys, i) == SubSeq(keys, i + 2, Min(i + MAX_BATCH_SIZE, Len(keys)))

\* keys.slice(i, i + MAX_BATCH_SIZE)
BatchSlice(keys, i) == SubSeq(keys, i + 1, Min(i + MAX_BATCH_SIZE, Len(keys)))

\* The table key a DeleteRequest names.
RequestKey(key) == <<key[pk].S, key[sk].S>>

RequestKeys(batch) == {RequestKey(batch[j]) : j \in 1..Len(batch)}

\* The store rejects a BatchWriteItem request that names a key twice.
HasDuplicates(batch) ==
  \E j, k \in 1..Len(batch) : j # k /\ batch[j] = batch[k]

\* for (let i = 0; i < keys.length; i += MAX_BATCH_SIZE): the loop goes on
\* with the chunk at i, or the method returns.
LoopOrReturn(p, keys, i, batchPc) ==
  IF i < Len(keys)
  THEN /\ pc' = [pc EXCEPT ![p] = batchPc]
       /\ UNCHANGED ret
  ELSE End(p, Returned)

\* What the model records of a BatchWriteItem request.
Logged(p, batch, result, unprocessed) ==
  batches' = [batches EXCEPT ![p] =
                Append(@, [keys |-> batch, result |-> result,
                           unprocessed |-> unprocessed])]

\* The errors a BatchWriteItem request may end with: the store rejects a
\* request that names a key twice, and any request may fail.
BatchErrors(batch) ==
  IF HasDuplicates(batch) THEN {"ValidationException"} ELSE StoreErrors

\* What a successful response may report as UnprocessedItems: nothing, one
\* key of the request, or all of them.
UnprocessedChoices(batch) ==
  {{}} \cup {{k} : k \in RequestKeys(batch)} \cup {RequestKeys(batch)}

\* One turn of the for loop: the BatchWriteItemCommand of the chunk at i.  The
\* request fails, or the store deletes the keys of the chunk except those it
\* reports as UnprocessedItems; the code does not read the response.
SendBatch(p, batchPc) ==
  LET keys == frame[p].keys
      i == frame[p].i
      batch == BatchSlice(keys, i)
  IN \/ \E e \in BatchErrors(batch) :
          /\ Logged(p, batch, e, {})
          /\ RequestFailed(p, e)
          /\ UNCHANGED table
     \/ \E unprocessed \in UnprocessedChoices(batch) :
          /\ ~HasDuplicates(batch)
          /\ table' = DeleteItems(table, RequestKeys(batch) \ unprocessed)
          /\ Logged(p, batch, "ok", unprocessed)
          /\ frame' = [frame EXCEPT ![p].i = i + MAX_BATCH_SIZE]
          /\ LoopOrReturn(p, keys, i + MAX_BATCH_SIZE, batchPc)

----------------------------------------------------------------------------
(* deleteUserSessions *)

CallDeleteUserSessions(p, userId) ==
  /\ Begin(p, NewFrame("deleteUserSessions", userId, 0), "dus_query")
  /\ UNCHANGED <<table, now>>

\* One turn of the do-while loop: the keys of the page are pushed.
DusQuery(p) ==
  LET matches == Gs1Matches(table, frame[p].id)
  IN /\ pc[p] = "dus_query"
     /\ \/ \E e \in StoreErrors : RequestFailed(p, e)
        \/ \E c \in PageChoices(table, matches, gsi1sk, ExclusiveStartKey(frame[p])) :
             LET res == QueryPage(table, matches, gsi1sk, ExclusiveStartKey(frame[p]), c[1], c[2])
                 keys == frame[p].keys
                         \o [i \in 1..Len(res.Items) |-> ProjectKey(res.Items[i])]
             IN /\ frame' = [frame EXCEPT ![p].keys = keys,
                                          ![p].lek = res.LastEvaluatedKey,
                                          ![p].pages = @ \cup PageKinds(res)]
                /\ IF res.LastEvaluatedKey # <<>>
                   THEN UNCHANGED <<pc, ret>>
                   ELSE LoopOrReturn(p, keys, 0, "dus_batch")
     /\ UNCHANGED <<table, now, batches, snap>>

DusBatch(p) ==
  /\ pc[p] = "dus_batch"
  /\ SendBatch(p, "dus_batch")
  /\ UNCHANGED <<now, snap>>

----------------------------------------------------------------------------
(* deleteExpiredSessions *)

\* const now = Math.floor(new Date().getTime() / 1000): the frame keeps the
\* reading of the clock, the queries use its seconds.
CallDeleteExpiredSessions(p) ==
  /\ Begin(p, NewFrame("deleteExpiredSessions", <<>>, 0), "des_query")
  /\ UNCHANGED <<table, now>>

SweepSeconds(f) == ExpiresSeconds(f.now)

DesQuery(p) ==
  LET matches == Gs2Matches(table, SweepSeconds(frame[p]))
  IN /\ pc[p] = "des_query"
     /\ \/ \E e \in StoreErrors : RequestFailed(p, e)
        \/ \E c \in PageChoices(table, matches, gsi2sk, ExclusiveStartKey(frame[p])) :
             LET res == QueryPage(table, matches, gsi2sk, ExclusiveStartKey(frame[p]), c[1], c[2])
                 expiredSessions == [i \in 1..Len(res.Items) |->
                                       Unmarshall(ProjectKey(res.Items[i]))]
                 keys == frame[p].keys
                         \o [i \in 1..Len(expiredSessions) |->
                               (pk :> [S |-> expiredSessions[i][pk].str])
                               @@ (sk :> [S |-> expiredSessions[i][sk].str])]
             IN /\ frame' = [frame EXCEPT ![p].keys = keys,
                                          ![p].lek = res.LastEvaluatedKey,
                                          ![p].pages = @ \cup PageKinds(res)]
                /\ IF res.LastEvaluatedKey # <<>>
                   THEN UNCHANGED <<pc, ret>>
                   ELSE LoopOrReturn(p, keys, 0, "des_batch")
     /\ UNCHANGED <<table, now, batches, snap>>

DesBatch(p) ==
  /\ pc[p] = "des_batch"
  /\ SendBatch(p, "des_batch")
  /\ UNCHANGED <<now, snap>>

----------------------------------------------------------------------------
(* The clock *)

ClockStart == 10 * MsPerSec

Tick ==
  /\ now + MsPerSec <= MaxNowSec * MsPerSec
  /\ now' = now + MsPerSec
  /\ UNCHANGED <<table, pc, frame, ret, batches, snap>>

----------------------------------------------------------------------------
(* Specifications *)

\* The operations on one session: deleteSession, setSession and
\* updateSessionExpiration, with the store requests they wait for.
ItemOps(p, ids) ==
  \/ \E id \in ids : CallDeleteSession(p, id)
  \/ DsSend(p)
  \/ \E session \in Sessions(ids) : CallSetSession(p, session)
  \/ SsSend(p)
  \/ \E id \in ids, expiresAt \in ExpiryChoices :
       CallUpdateSessionExpiration(p, id, expiresAt)
  \/ UseUpdate(p)
  \/ UseDelete(p)
  \/ Return(p)

\* The reads: getSessionAndUser and getUserSessions.
ReadOps(p, ids) ==
  \/ \E id \in ids : CallGetSessionAndUser(p, id)
  \/ GsuQuerySession(p)
  \/ GsuGetUser(p)
  \/ \E userId \in UserIds : CallGetUserSessions(p, userId)
  \/ GusQuery(p)

\* The bulk deletes: deleteUserSessions and deleteExpiredSessions.
BulkOps(p) ==
  \/ \E userId \in UserIds : CallDeleteUserSessions(p, userId)
  \/ DusQuery(p)
  \/ DusBatch(p)
  \/ CallDeleteExpiredSessions(p)
  \/ DesQuery(p)
  \/ DesBatch(p)

InitCallers ==
  /\ pc = [p \in Procs |-> "idle"]
  /\ frame = [p \in Procs |-> NoFrame]
  /\ ret = [p \in Procs |-> NoRet]
  /\ batches = [p \in Procs |-> <<>>]
  /\ snap = <<>>

\* The table holds the users the application has stored, and no session.
Init ==
  /\ \E ids \in SUBSET UserIds : table = UserTable(ids)
  /\ now = ClockStart
  /\ InitCallers

\* Two concurrent callers on the same session id: p1 calls any operation,
\* p2 the operations on one session.
Next ==
  \/ ItemOps("p1", SharedSessionIds)
  \/ ReadOps("p1", SharedSessionIds)
  \/ BulkOps("p1")
  \/ ItemOps("p2", SharedSessionIds)
  \/ Tick

Spec == Init /\ [][Next]_vars

\* One caller: every call ends before the next begins.
NextSeq ==
  \/ ItemOps("p1", SessionIds)
  \/ ReadOps("p1", SessionIds)
  \/ BulkOps("p1")
  \/ Tick

SpecSeq == Init /\ [][NextSeq]_vars

----------------------------------------------------------------------------
(* A table with more sessions than one batch holds, and one bulk delete on it *)

BulkUser == <<"a">>

BulkSession(k) ==
  [id |-> ToDecimal(k), userId |-> BulkUser, expiresAt |-> ClockStart,
   attributes |-> NoAttributes]

BulkTable(n) ==
  LET items == {SessionToItem(BulkSession(k)) : k \in 1..n}
  IN [key \in {KeyOf(item) : item \in items} |->
        CHOOSE item \in items : KeyOf(item) = key]

\* The numbers of sessions in the table: around the multiples of MAX_BATCH_SIZE.
BulkSizes ==
  {0, 1, MAX_BATCH_SIZE, MAX_BATCH_SIZE + 1, 2 * MAX_BATCH_SIZE,
   2 * MAX_BATCH_SIZE + MaxBulkExtra}

\* The sessions have expired one second ago.
InitBulk ==
  /\ \E n \in BulkSizes : table = BulkTable(n)
  /\ now = ClockStart + MsPerSec
  /\ InitCallers

NextBulk == BulkOps("p1")

SpecBulk == InitBulk /\ [][NextBulk]_vars

----------------------------------------------------------------------------
(* The conversion of a session to its item and back *)

RoundTripIds == SessionIds \cup {<<"s", "#", "t">>}

RoundTripAttributeChoices ==
  {NoAttributes,
   ("country" :> JsStr(<<"x">>)),
   ("country" :> JsStr(<<"x">>)) @@ ("visits" :> JsNum(12))}

RoundTripSessions ==
  [id : RoundTripIds, userId : UserIds,
   expiresAt : ExpiryChoices \cup {12 * MsPerSec},
   attributes : RoundTripAttributeChoices]

InitRoundTrip ==
  /\ table = UserTable({})
  /\ now = ClockStart
  /\ pc = [p \in Procs |-> IF p = "p1" THEN "convert" ELSE "idle"]
  /\ \E session \in RoundTripSessions :
       frame = [p \in Procs |->
                  IF p = "p1" THEN [NoFrame EXCEPT !.op = "roundTrip",
                                                   !.session = <<session>>]
                  ELSE NoFrame]
  /\ ret = [p \in Procs |-> NoRet]
  /\ batches = [p \in Procs |-> <<>>]
  /\ snap = <<>>

\* itemToSession on the item that setSession puts.
RoundTrip(p) ==
  /\ pc[p] = "convert"
  /\ End(p, [Returned EXCEPT
               !.session = <<ItemToSession(SessionToItem(frame[p].session[1]))>>])
  /\ UNCHANGED <<table, now, frame, batches, snap>>

NextRoundTrip == RoundTrip("p1")

SpecRoundTrip == InitRoundTrip /\ [][NextRoundTrip]_vars

----------------------------------------------------------------------------
(* A table with items the adapter has not written: a session item and the *)
(* item of its user, with and without the attributes the adapter reads    *)

StoredSessionId == <<"s">>

StoredUserId == <<"a">>

\* A session with an attribute of its own, as setSession stores it.
StoredSession ==
  [id |-> StoredSessionId, userId |-> StoredUserId, expiresAt |-> ClockStart,
   attributes |-> ("country" :> JsStr(<<"x">>))]

Without(item, names) == [k \in DOMAIN item \ names |-> item[k]]

\* The item of the session: whole, without its Gs1Pk or its Expires, or
\* with an Expires that spells no number.
SessionItemChoices ==
  LET whole == SessionToItem(StoredSession)
  IN {Without(whole, names) : names \in SUBSET {gsi1pk, expires}}
     \cup {[item EXCEPT ![expires] = [S |-> <<"x">>]] :
             item \in {whole, Without(whole, {gsi1pk})}}

\* The attributes a user item may carry beside its key.
UserAttributeChoices ==
  ("HashedPassword" :> [S |-> <<"x">>])
  @@ ("username" :> [S |-> StoredUserId])
  @@ (gsi1pk :> [S |-> <<"x">>])
  @@ (gsi2sk :> [S |-> <<"x">>])
  @@ (expires :> [N |-> <<"1", "2">>])

UserItemChoices ==
  LET key == (pk :> [S |-> Str_UserHash \o StoredUserId]) @@ (sk :> [S |-> Str_User])
  IN {key @@ [k \in names |-> UserAttributeChoices[k]] :
        names \in SUBSET DOMAIN UserAttributeChoices}

InitItems ==
  /\ \E session \in SessionItemChoices :
       \/ table = (KeyOf(session) :> session)
       \/ \E user \in UserItemChoices :
            table = (KeyOf(session) :> session) @@ (KeyOf(user) :> user)
  /\ now = ClockStart
  /\ InitCallers

NextItems ==
  \/ ItemOps("p1", {StoredSessionId})
  \/ ReadOps("p1", {StoredSessionId})

SpecItems == InitItems /\ [][NextItems]_vars

----------------------------------------------------------------------------
(* The order of the sort keys that setSession writes and the sweep compares *)

InitEncoding ==
  /\ table = UserTable({})
  /\ now = ClockStart
  /\ pc = [p \in Procs |-> IF p = "p1" THEN "compare" ELSE "idle"]
  /\ \E a, b \in 0..MaxEncoded :
       frame = [p \in Procs |->
                  IF p = "p1" THEN [NoFrame EXCEPT !.op = "compareKeys",
                                                   !.session = <<[a |-> a, b |-> b]>>]
                  ELSE NoFrame]
  /\ ret = [p \in Procs |-> NoRet]
  /\ batches = [p \in Procs |-> <<>>]
  /\ snap = <<>>

\* '#gs2sk < :gs2sk_end' for a session with expiry a and a sweep at b:
\* the keys `Expires#${a}` and `Expires#${b}` compared as the store does.
CompareKeys(p) ==
  /\ pc[p] = "compare"
  /\ End(p, [Returned EXCEPT
               !.session = <<StrLess(ExpiresKey(frame[p].session[1].a),
                                     ExpiresKey(frame[p].session[1].b))>>])
  /\ UNCHANGED <<table, now, frame, batches, snap>>

NextEncoding == CompareKeys("p1")

SpecEncoding == InitEncoding /\ [][NextEncoding]_vars

----------------------------------------------------------------------------
(* Notions the properties are stated with *)

IsSessionKey(k) == k[2] = Str_Session

\* The expiry an item stores, in seconds: its numeric Expires attribute.
StoredExpiry(item) == ParseDecimal(item[expires].N)

\* The id a session item was written for: its partition key without 'Session#'.
StoredId(k) == SubSeq(k[1], Len(Str_SessionHash) + 1, Len(k[1]))

\* p's call of op has ended.
Ended(p, op) == pc[p] = "done" /\ frame[p].op = op

\* p's call of a bulk delete, deleteUserSessions or deleteExpiredSessions, has ended.
EndedBulk(p) == Ended(p, "deleteUserSessions") \/ Ended(p, "deleteExpiredSessions")

\* The store reported no key as unprocessed to p's call.
NothingUnprocessed(p) ==
  \A j \in 1..Len(batches[p]) : batches[p][j].unprocessed = {}

\* Two sessions are the same to the second.
SameSession(a, b) ==
  /\ a.id = b.id
  /\ a.userId = b.userId
  /\ a.attributes = b.attributes
  /\ ExpiresSeconds(a.expiresAt) = ExpiresSeconds(b.expiresAt)

\* The sessions that setSession stores as this item.
WrittenAs(item) == {s \in Sessions(SessionIds) : SessionToItem(s) = item}

\* ceil(n / 25)
ChunkCount(n) == (n + 24) \div 25

\* The j-th chunk of 25 keys.
Chunk(keys, j) ==
  SubSeq(keys, 25 * (j - 1) + 1, IF 25 * j < Len(keys) THEN 25 * j ELSE Len(keys))

----------------------------------------------------------------------------
(* Properties *)

\* C1: a deleteExpiredSessions that ran alone, met no failure and no
\* unprocessed key leaves exactly the items it found, less the sessions whose
\* stored expiry is before its sweep time t; a session with expiry >= t stays
\* as it was.
C1_SweepExact ==
  \A p \in Procs :
    (/\ Ended(p, "deleteExpiredSessions")
     /\ ret[p].status = "ok"
     /\ NothingUnprocessed(p)
     /\ snap # <<>>)
    => LET before == snap[1]
           t == SweepSeconds(frame[p])
           kept == {k \in DOMAIN before :
                      ~IsSessionKey(k) \/ StoredExpiry(before[k]) >= t}
       IN table = [k \in kept |-> before[k]]

\* C2: a step never makes an item appear under a session key, unless it is
\* the PutItem of a setSession for that id; in particular the UpdateItem of
\* updateSessionExpiration, applied when no item is under its key, leaves
\* none there.
C2_NoResurrection ==
  [][\A k \in DOMAIN table' \ DOMAIN table :
       /\ \E p \in Procs :
            /\ pc[p] = "ss_send" /\ pc'[p] = "done"
            /\ ret'[p].status = "ok"
            /\ SessionKey(frame[p].id) = k
       /\ \A p \in Procs : ~(pc[p] = "use_update" /\ pc'[p] = "done")]_vars

\* An updateSessionExpiration met no item: its call began before the sweep
\* of the other caller, which deleted the session, and the key stays absent.
C2_Witness ==
  /\ Ended("p2", "updateSessionExpiration")
  /\ ret["p2"].error = "ConditionalCheckFailedException"
  /\ Ended("p1", "deleteExpiredSessions")
  /\ frame["p2"].now < frame["p1"].now
  /\ Len(batches["p1"]) = 1
  /\ SessionKey(frame["p2"].id) \in RequestKeys(batches["p1"][1].keys)
  /\ SessionKey(frame["p2"].id) \notin DOMAIN table

\* C3: updateSessionExpiration(id, t) with t before the time of the call,
\* running alone, ends as deleteSession(id) does: with the table that has
\* lost the item of id and nothing else, no expiry written, and nothing for
\* getSessionAndUser(id) to find; or, when the store fails, with the table
\* untouched and the error of the store.
C3_PastUpdateDeletes ==
  \A p \in Procs :
    (/\ Ended(p, "updateSessionExpiration")
     /\ frame[p].expiresAt < frame[p].now
     /\ snap # <<>>)
    => LET key == SessionKey(frame[p].id)
       IN IF ret[p].status = "ok"
          THEN /\ table = DeleteItem(snap[1], key)
               /\ QueryPrimary(table, key) = <<>>
          ELSE /\ table = snap[1]
               /\ frame[p].failure = <<ret[p].error>>
               /\ ret[p].error \in StoreErrors

\* A stored session was deleted by an update to a past time.
C3_Witness ==
  /\ Ended("p1", "updateSessionExpiration")
  /\ frame["p1"].expiresAt < frame["p1"].now
  /\ ret["p1"].status = "ok"
  /\ snap # <<>>
  /\ SessionKey(frame["p1"].id) \in DOMAIN snap[1]
  /\ SessionKey(frame["p1"].id) \notin DOMAIN table

\* C4: getSessionAndUser(id), running alone, returns (null, null) when no
\* item is stored for id; otherwise the session last written for id, with
\* null when no user item is stored for the userId of that session, and with
\* that user when one is.
C4_GetSessionAndUser ==
  \A p \in Procs :
    (Ended(p, "getSessionAndUser") /\ ret[p].status = "ok" /\ snap # <<>>)
    => LET key == SessionKey(frame[p].id)
       IN IF key \notin DOMAIN table
          THEN ret[p].session = <<>> /\ ret[p].user = <<>>
          ELSE \A s \in WrittenAs(table[key]) :
                 /\ ret[p].session # <<>>
                 /\ SameSession(ret[p].session[1], s)
                 /\ UserKey(s.userId) \notin DOMAIN table => ret[p].user = <<>>
                 /\ UserKey(s.userId) \in DOMAIN table
                      => ret[p].user # <<>> /\ ret[p].user[1].id = s.userId

\* C5: itemToSession on the item setSession puts gives the session back:
\* its id, its userId, its attributes, and its expiresAt to the second.
C5_RoundTrip ==
  \A p \in Procs :
    Ended(p, "roundTrip")
    => SameSession(ret[p].session[1], frame[p].session[1])

\* C6: getUserSessions(userId), running alone, returns the stored sessions
\* of userId, each once and no other, whatever pages the store answers with:
\* the ids returned are, without repetition, the ids of the stored sessions
\* whose userId is userId.
C6_PaginationComplete ==
  \A p \in Procs :
    (Ended(p, "getUserSessions") /\ ret[p].status = "ok" /\ snap # <<>>)
    => LET got == ret[p].sessions
           stored == {k \in DOMAIN table :
                        /\ IsSessionKey(k)
                        /\ \E s \in WrittenAs(table[k]) : s.userId = frame[p].id}
       IN /\ \A i, j \in 1..Len(got) : got[i].id = got[j].id => i = j
          /\ {got[i].id : i \in 1..Len(got)} = {StoredId(k) : k \in stored}

\* Two sessions came in more than one page, one of the pages empty.
C6_Witness ==
  /\ Ended("p1", "getUserSessions")
  /\ ret["p1"].status = "ok"
  /\ Len(ret["p1"].sessions) = 2
  /\ frame["p1"].pages = {"continued", "empty"}

\* No session of the user: the empty sequence.
C6_WitnessEmpty ==
  /\ Ended("p1", "getUserSessions")
  /\ ret["p1"].status = "ok"
  /\ ret["p1"].sessions = <<>>
  /\ \E k \in DOMAIN table : IsSessionKey(k)

\* C7: the batch-delete requests of a bulk delete are the chunks of 25 of
\* the keys its queries collected, in order: request j carries the j-th
\* chunk, of 1 to 25 keys; a call that returns has sent ceil(N / 25)
\* requests for its N keys, so that every key is in exactly one of them;
\* and when the store left nothing unprocessed no key is in the table any more.
C7_BatchChunks ==
  \A p \in Procs :
    LET keys == frame[p].keys
        log == batches[p]
    IN /\ Len(log) <= ChunkCount(Len(keys))
       /\ \A j \in 1..Len(log) :
            /\ log[j].keys = Chunk(keys, j)
            /\ Len(log[j].keys) \in 1..25
       /\ (EndedBulk(p) /\ ret[p].status = "ok")
            => /\ Len(log) = ChunkCount(Len(keys))
               /\ NothingUnprocessed(p)
                    => \A i \in 1..Len(keys) : RequestKey(keys[i]) \notin DOMAIN table

\* 57 keys went in requests of 25, 25 and 7, and all are deleted.
C7_Witness ==
  /\ EndedBulk("p1")
  /\ ret["p1"].status = "ok"
  /\ NothingUnprocessed("p1")
  /\ Len(frame["p1"].keys) = 2 * MAX_BATCH_SIZE + MaxBulkExtra
  /\ Len(batches["p1"]) = 3
  /\ Len(batches["p1"][3].keys) = MaxBulkExtra

\* C8, as the specification states it: a bulk delete that has sent a
\* batch-delete request sends the request of every chunk, whatever the
\* outcome of the earlier ones.
C8_EveryChunkAttempted ==
  \A p \in Procs :
    (EndedBulk(p) /\ Len(batches[p]) >= 1)
    => Len(batches[p]) = ChunkCount(Len(frame[p].keys))

\* C8, amended: the failure of a batch-delete request ends the bulk delete
\* with that failure: it is the last request of the call; the chunks before
\* it were requested and what the store deleted of them stays deleted.
C8_FailureEndsBulkDelete ==
  \A p \in Procs :
    \A j \in 1..Len(batches[p]) :
      /\ batches[p][j].result # "ok"
           => /\ j = Len(batches[p])
              /\ pc[p] = "done"
              /\ ret[p] = Threw(batches[p][j].result)
      /\ batches[p][j].result = "ok"
           => \A k \in RequestKeys(batches[p][j].keys) \ batches[p][j].unprocessed :
                k \notin DOMAIN table

\* The second of three chunks failed: the third was not requested.
C8_Witness ==
  /\ EndedBulk("p1")
  /\ ret["p1"].status = "error"
  /\ Len(batches["p1"]) = 2
  /\ ChunkCount(Len(frame["p1"].keys)) = 3
  /\ \E i \in 1..Len(frame["p1"].keys) : RequestKey(frame["p1"].keys[i]) \in DOMAIN table

\* C9: when a bulk delete that ran alone returns without an error, every
\* key its queries collected is gone from the table.
C9_SuccessMeansDeleted ==
  \A p \in Procs :
    (EndedBulk(p) /\ ret[p].status = "ok")
    => \A i \in 1..Len(frame[p].keys) :
         RequestKey(frame[p].keys[i]) \notin DOMAIN table

\* C10: a call whose request the store answered with an error has ended
\* with that error as its outcome, having sent no request after it; and a
\* call throws no error but that of the store.
C10_FailurePropagates ==
  \A p \in Procs :
    /\ frame[p].failure # <<>>
         => pc[p] = "done" /\ ret[p] = Threw(frame[p].failure[1])
    /\ ret[p].status = "error" => frame[p].failure = <<ret[p].error>>
    /\ \A j \in 1..Len(batches[p]) :
         batches[p][j].result # "ok"
           => j = Len(batches[p]) /\ frame[p].failure = <<batches[p][j].result>>

\* A sweep ended with the error of its batch-delete request.
C10_Witness ==
  /\ Ended("p1", "deleteExpiredSessions")
  /\ ret["p1"].status = "error"
  /\ Len(batches["p1"]) = 1
  /\ batches["p1"][1].result = ret["p1"].error
  /\ ret["p1"].error \in StoreErrors


\* C11: deleteSession(id), running alone, throws no error but a failure of
\* the store, which leaves the table as it was; when it returns the table is
\* the one before without the item of id, so that it is the table before
\* when no session was stored for id: as after a first deleteSession(id).
C11_IdempotentDelete ==
  \A p \in Procs :
    (Ended(p, "deleteSession") /\ snap # <<>>)
    => LET key == SessionKey(frame[p].id)
           before == snap[1]
       IN /\ ret[p].status = "error"
               => ret[p].error \in StoreErrors /\ table = before
          /\ ret[p].status = "ok"
               => /\ table = [k \in DOMAIN before \ {key} |-> before[k]]
                  /\ key \notin DOMAIN before => table = before
                  /\ DeleteItem(table, key) = table

\* deleteSession returned for an id with no session, beside a stored session.
C11_Witness ==
  /\ Ended("p1", "deleteSession")
  /\ ret["p1"].status = "ok"
  /\ snap # <<>>
  /\ SessionKey(frame["p1"].id) \notin DOMAIN snap[1]
  /\ \E k \in DOMAIN table : IsSessionKey(k)


\* Nothing is stored for the id of p's call in the table it began on: no
\* session item for a session id, no session of the user for a user id.
NothingStoredFor(p) ==
  IF frame[p].op \in {"getSessionAndUser", "updateSessionExpiration"}
  THEN SessionKey(frame[p].id) \notin DOMAIN snap[1]
  ELSE Gs1Matches(snap[1], frame[p].id) = {}

\* C12: getSessionAndUser, getUserSessions, deleteUserSessions and
\* updateSessionExpiration with a time in the future, called alone with an
\* id for which nothing is stored, return (null or empty, the table as it
\* was) and throw no error, unless the store itself fails.
C12_AbsenceIsNoError ==
  \A p \in Procs :
    (/\ pc[p] = "done"
     /\ \/ frame[p].op \in {"getSessionAndUser", "getUserSessions", "deleteUserSessions"}
        \/ /\ frame[p].op = "updateSessionExpiration"
           /\ frame[p].expiresAt > frame[p].now
     /\ snap # <<>>
     /\ NothingStoredFor(p)
     /\ ret[p].error \notin StoreErrors)
    => /\ ret[p].status = "ok"
       /\ ret[p].session = <<>> /\ ret[p].user = <<>> /\ ret[p].sessions = <<>>
       /\ table = snap[1]


\* The item getSessionAndUser has fetched for the user of its session.
FetchedUserItem(p) == table[UserKey(frame[p].session[1].userId)]

\* C13: the attributes of the User that getSessionAndUser returns are those
\* of the user item, with their values, except the configured
\* extraUserAttributes (HashedPassword) and the names of the key schema
\* (Pk, Sk, Gs1Pk, Gs1Sk, Gs2Pk, Gs2Sk, Expires), none of which is among them.
C13_AttributeExclusion ==
  \A p \in Procs :
    (Ended(p, "getSessionAndUser") /\ ret[p].status = "ok" /\ ret[p].user # <<>>)
    => LET item == FetchedUserItem(p)
           attributes == ret[p].user[1].attributes
           excluded == {"HashedPassword", "Pk", "Sk", "Gs1Pk", "Gs1Sk",
                        "Gs2Pk", "Gs2Sk", "Expires"}
       IN /\ DOMAIN attributes \cap excluded = {}
          /\ \A k \in DOMAIN item \ excluded :
               /\ k \in DOMAIN attributes
               /\ attributes[k] = Unmarshall(item)[k]
          /\ DOMAIN attributes \subseteq DOMAIN item

\* A user item with HashedPassword, index keys and Expires was returned
\* with its username alone.
C13_Witness ==
  /\ Ended("p1", "getSessionAndUser")
  /\ ret["p1"].status = "ok"
  /\ ret["p1"].user # <<>>
  /\ {"HashedPassword", "Gs1Pk", "Gs2Sk", "Expires", "username"}
       \subseteq DOMAIN FetchedUserItem("p1")
  /\ DOMAIN ret["p1"].user[1].attributes = {"username"}

\* The session item is malformed: it lacks its Expires attribute, or that
\* spells no integer.  (An item in the table always has its primary key.)
Malformed(item) ==
  \/ expires \notin DOMAIN item
  \/ /\ "S" \in DOMAIN item[expires]
     /\ \E i \in 1..Len(item[expires].S) :
          \A d \in 1..Len(Digits) : Digits[d] # item[expires].S[i]

\* C14: getSessionAndUser(id) and getUserSessions(userId) on a session item
\* without an Expires attribute, or with one that spells no integer, end
\* with an error (the specification names it MalformedRecordError) and
\* return no Session made of that item.
C14_MalformedRecord ==
  \A p \in Procs :
    LET key == SessionKey(StoredSessionId)
    IN (/\ pc[p] = "done"
        /\ key \in DOMAIN table
        /\ Malformed(table[key])
        /\ ret[p].error \notin StoreErrors
        /\ \/ frame[p].op = "getSessionAndUser"
           \/ /\ frame[p].op = "getUserSessions"
              /\ key \in Gs1Matches(table, frame[p].id))
       => ret[p].status = "error"


\* C15: after setSession(s), running alone, the item under the key of s.id
\* is the one s determines, with the attributes of the key schema and those
\* of s and no other, whatever was stored there before; every other item is
\* as before; and on a table that holds this item already (as after a
\* first setSession(s)) the call changes nothing.
C15_SetSessionOverwrites ==
  \A p \in Procs :
    (Ended(p, "setSession") /\ ret[p].status = "ok" /\ snap # <<>>)
    => LET s == frame[p].session[1]
           key == SessionKey(s.id)
           before == snap[1]
       IN /\ DOMAIN table = DOMAIN before \cup {key}
          /\ \A k \in DOMAIN before \ {key} : table[k] = before[k]
          /\ table[key] = SessionToItem(s)
          /\ DOMAIN table[key] =
               {"Pk", "Sk", "Gs1Pk", "Gs1Sk", "Gs2Pk", "Gs2Sk", "Expires"}
               \cup DOMAIN s.attributes
          /\ (key \in DOMAIN before /\ before[key] = SessionToItem(s))
               => table = before

\* A session stored with an attribute was overwritten by one without it.
C15_Witness ==
  /\ Ended("p1", "setSession")
  /\ ret["p1"].status = "ok"
  /\ snap # <<>>
  /\ SessionKey(frame["p1"].id) \in DOMAIN snap[1]
  /\ "country" \in DOMAIN snap[1][SessionKey(frame["p1"].id)]
  /\ "country" \notin DOMAIN table[SessionKey(frame["p1"].id)]

\* The same session was set a second time.
C15_WitnessTwice ==
  /\ Ended("p1", "setSession")
  /\ ret["p1"].status = "ok"
  /\ snap = <<table>>
  /\ SessionKey(frame["p1"].id) \in DOMAIN table


IsUserKey(k) == k[2] = Str_User

\* C16: no step of any operation, of either caller, creates, changes or
\* deletes a user item (sort key 'User'): the user items and their contents
\* are in every state those the table began with.
C16_UsersOnlyRead ==
  [][\A k \in DOMAIN table \cup DOMAIN table' :
       IsUserKey(k)
       => /\ k \in DOMAIN table
          /\ k \in DOMAIN table'
          /\ table'[k] = table[k]]_vars

\* The sessions of a stored user were deleted in bulk while the other
\* caller had written one, and the user is read.
C16_Witness ==
  /\ Ended("p1", "deleteUserSessions")
  /\ ret["p1"].status = "ok"
  /\ Len(batches["p1"]) = 1
  /\ UserKey(frame["p1"].id) \in DOMAIN table
  /\ Ended("p2", "setSession")
  /\ ret["p2"].status = "ok"
  /\ frame["p2"].session[1].userId = frame["p1"].id


\* C17: in every state reached by setSession and updateSessionExpiration
\* (and the other operations) of two concurrent callers, each stored
\* session item has Gs1Sk = Gs2Sk = 'Expires#' followed by the decimal of
\* its Expires, Gs2Pk = 'Session', and Gs1Pk = 'User#' followed by a userId.
C17_IndexAgreement ==
  \A k \in DOMAIN table :
    IsSessionKey(k)
    => LET item == table[k]
       IN /\ {"Gs1Pk", "Gs1Sk", "Gs2Pk", "Gs2Sk", "Expires"} \subseteq DOMAIN item
          /\ "N" \in DOMAIN item["Expires"]
          /\ item["Gs1Sk"] = [S |-> Str_ExpiresHash \o item["Expires"].N]
          /\ item["Gs2Sk"] = item["Gs1Sk"]
          /\ item["Gs2Pk"] = [S |-> Str_Session]
          /\ \E userId \in UserIds : item["Gs1Pk"] = [S |-> Str_UserHash \o userId]

\* The expiry of a session that one caller has set was updated by the other.
C17_Witness ==
  /\ Ended("p1", "setSession")
  /\ ret["p1"].status = "ok"
  /\ Ended("p2", "updateSessionExpiration")
  /\ ret["p2"].status = "ok"
  /\ frame["p2"].expiresAt > frame["p2"].now
  /\ SessionKey(frame["p1"].id) \in DOMAIN table
  /\ StoredExpiry(table[SessionKey(frame["p1"].id)])
       # ExpiresSeconds(frame["p1"].session[1].expiresAt)


\* C18: for expiry values a and b in seconds, the sort key 'Expires#' + a is
\* below 'Expires#' + b in the order of the store exactly when a < b, also
\* when a and b have different numbers of digits.
C18_OrderPreserving ==
  \A p \in Procs :
    Ended(p, "compareKeys")
    => (ret[p].session[1] <=> frame[p].session[1].a < frame[p].session[1].b)


\* C19: updateSessionExpiration(id, t) with t after the time of the call,
\* running alone on a stored session, returns with Gs1Sk, Gs2Sk and Expires
\* of the item encoding floor(t / 1000) and every other attribute of the
\* item (its key, its Gs1Pk with the userId, its own attributes) as before;
\* every other item is as before.
C19_UpdateTouchesExpiryOnly ==
  \A p \in Procs :
    (/\ Ended(p, "updateSessionExpiration")
     /\ frame[p].expiresAt > frame[p].now
     /\ ret[p].status = "ok"
     /\ snap # <<>>)
    => LET key == SessionKey(frame[p].id)
           before == snap[1]
           seconds == frame[p].expiresAt \div 1000
           expiryFields == {"Gs1Sk", "Gs2Sk", "Expires"}
       IN /\ key \in DOMAIN before
          /\ DOMAIN table = DOMAIN before
          /\ \A k \in DOMAIN before \ {key} : table[k] = before[k]
          /\ DOMAIN table[key] = DOMAIN before[key] \cup expiryFields
          /\ \A a \in DOMAIN before[key] \ expiryFields :
               table[key][a] = before[key][a]
          /\ table[key]["Gs1Sk"] = [S |-> Str_ExpiresHash \o ToDecimal(seconds)]
          /\ table[key]["Gs2Sk"] = [S |-> Str_ExpiresHash \o ToDecimal(seconds)]
          /\ table[key]["Expires"] = [N |-> ToDecimal(seconds)]

\* The expiry of a session with an attribute and a user moved from 10 to 11.
C19_Witness ==
  /\ Ended("p1", "updateSessionExpiration")
  /\ ret["p1"].status = "ok"
  /\ snap # <<>>
  /\ SessionKey(StoredSessionId) \in DOMAIN snap[1]
  /\ SessionKey(StoredSessionId) \in DOMAIN table
  /\ snap[1][SessionKey(StoredSessionId)] = SessionToItem(StoredSession)
  /\ table[SessionKey(StoredSessionId)]["Expires"] = [N |-> <<"1", "1">>]
  /\ "country" \in DOMAIN table[SessionKey(StoredSessionId)]
  /\ UserKey(StoredUserId) \in DOMAIN table


QueryPcs == {"gus_query", "dus_query", "des_query"}

BatchPcs == {"dus_batch", "des_batch"}

\* The store has answered the query of p's call in this step.
QueryAnswered(p) ==
  /\ pc[p] \in QueryPcs
  /\ frame'[p] # frame[p]
  /\ frame'[p].failure = <<>>

\* The table keys of what p's call has collected: keys, or sessions.
Collected(f) ==
  IF f.op = "getUserSessions"
  THEN [i \in 1..Len(f.sessions) |-> SessionKey(f.sessions[i].id)]
  ELSE [i \in 1..Len(f.keys) |-> RequestKey(f.keys[i])]

\* The items the index query of p's call matches, and the sort key of its index.
MatchesOf(p) ==
  IF pc[p] = "des_query" THEN Gs2Matches(table, SweepSeconds(frame[p]))
  ELSE Gs1Matches(table, frame[p].id)

SortKeyOf(p) == IF pc[p] = "des_query" THEN gsi2sk ELSE gsi1sk

\* C20: in a call of getUserSessions, deleteUserSessions or
\* deleteExpiredSessions every step is one request with its response: a
\* query step sends no batch and a batch step no query; the page a query
\* step receives is made of the items that follow the LastEvaluatedKey of
\* the response before it (the first items of the index when there was
\* none); the call stays in its query loop exactly as long as the responses
\* carry a LastEvaluatedKey; and a batch-delete request is sent only when
\* the last response carried none, and collects no further key.
C20_Sequential ==
  [][\A p \in Procs :
       /\ QueryAnswered(p)
            => LET old == Collected(frame[p])
                   new == Collected(frame'[p])
                   page == SubSeq(new, Len(old) + 1, Len(new))
               IN /\ SubSeq(new, 1, Len(old)) = old
                  /\ page = FirstInOrder(table,
                                         AfterStart(table, MatchesOf(p), SortKeyOf(p),
                                                    frame[p].lek),
                                         SortKeyOf(p), Len(page))
                  /\ frame'[p].lek = <<>> => pc'[p] \notin QueryPcs
                  /\ frame'[p].lek # <<>> => pc'[p] = pc[p]
                  /\ batches'[p] = <<>> /\ batches[p] = <<>>
       /\ Len(batches'[p]) > Len(batches[p])
            => /\ pc[p] \in BatchPcs
               /\ frame[p].lek = <<>>
               /\ Len(batches'[p]) = Len(batches[p]) + 1
               /\ frame'[p].keys = frame[p].keys
       /\ pc[p] \in BatchPcs => frame[p].lek = <<>> /\ frame'[p].keys = frame[p].keys]_vars

\* Two sessions were collected in pages of one and deleted in one batch.
C20_Witness ==
  /\ Ended("p1", "deleteUserSessions")
  /\ ret["p1"].status = "ok"
  /\ Len(frame["p1"].keys) = 2
  /\ "continued" \in frame["p1"].pages
  /\ Len(batches["p1"]) = 1


\* The keys of the sessions stored for userId: the session items whose
\* Gs1Pk is 'User#' followed by userId.
SessionsOf(tbl, userId) ==
  {k \in DOMAIN tbl :
     /\ IsSessionKey(k)
     /\ "Gs1Pk" \in DOMAIN tbl[k]
     /\ tbl[k]["Gs1Pk"] = [S |-> Str_UserHash \o userId]}

\* C21: deleteUserSessions(userId) that ran alone, met no failure and no
\* unprocessed key leaves the table it found less the sessions of userId,
\* whatever their expiry: every other item, the sessions of other users
\* among them, is as before, and the query of getUserSessions(userId)
\* matches nothing any more.
C21_DeleteUserSessions ==
  \A p \in Procs :
    (/\ Ended(p, "deleteUserSessions")
     /\ ret[p].status = "ok"
     /\ NothingUnprocessed(p)
     /\ snap # <<>>)
    => LET before == snap[1]
           kept == DOMAIN before \ SessionsOf(before, frame[p].id)
       IN /\ table = [k \in kept |-> before[k]]
          /\ SessionsOf(table, frame[p].id) = {}
          /\ Gs1Matches(table, frame[p].id) = {}

\* Of two sessions with different expiries, that of the user was deleted
\* and that of the other user stays.
C21_Witness ==
  /\ Ended("p1", "deleteUserSessions")
  /\ ret["p1"].status = "ok"
  /\ NothingUnprocessed("p1")
  /\ snap # <<>>
  /\ Cardinality({k \in DOMAIN snap[1] : IsSessionKey(k)}) = 2
  /\ Cardinality(SessionsOf(snap[1], frame["p1"].id)) = 1
  /\ Cardinality({k \in DOMAIN table : IsSessionKey(k)}) = 1
  /\ \E k \in DOMAIN snap[1], j \in DOMAIN table :
       /\ IsSessionKey(k) /\ IsSessionKey(j)
       /\ StoredExpiry(snap[1][k]) # StoredExpiry(table[j])


\* C22, as the specification states it: getSessionAndUser(id) returns no
\* session whose stored expiry is before the time of the call, and
\* getUserSessions includes none.
C22_ExpiredAbsentToReaders ==
  \A p \in Procs :
    (pc[p] = "done" /\ ret[p].status = "ok" /\ snap # <<>>)
    => /\ (frame[p].op = "getSessionAndUser" /\ ret[p].session # <<>>)
            => StoredExpiry(table[SessionKey(frame[p].id)]) * 1000 >= frame[p].now
       /\ frame[p].op = "getUserSessions"
            => \A i \in 1..Len(ret[p].sessions) :
                 StoredExpiry(table[SessionKey(ret[p].sessions[i].id)]) * 1000
                   >= frame[p].now

\* C22, amended: the reads apply no expiry filter.  getSessionAndUser(id),
\* running alone, returns a session exactly when an item is stored for id,
\* and getUserSessions(userId) one for each session stored for userId,
\* whether the stored expiry is before the time of the call or not; each
\* comes with the stored expiry as its expiresAt, by which the caller can
\* tell that it has passed.
C22_ReadersGetStoredExpiry ==
  \A p \in Procs :
    (pc[p] = "done" /\ ret[p].status = "ok" /\ snap # <<>>)
    => /\ frame[p].op = "getSessionAndUser"
            => LET key == SessionKey(frame[p].id)
               IN /\ ret[p].session # <<>> <=> key \in DOMAIN table
                  /\ key \in DOMAIN table
                       => ret[p].session[1].expiresAt = StoredExpiry(table[key]) * 1000
       /\ frame[p].op = "getUserSessions"
            => /\ Len(ret[p].sessions) = Cardinality(SessionsOf(table, frame[p].id))
               /\ \A i \in 1..Len(ret[p].sessions) :
                    LET key == SessionKey(ret[p].sessions[i].id)
                    IN /\ key \in SessionsOf(table, frame[p].id)
                       /\ ret[p].sessions[i].expiresAt = StoredExpiry(table[key]) * 1000

\* A session whose expiry had passed when the call began was returned.
C22_Witness ==
  /\ Ended("p1", "getSessionAndUser")
  /\ ret["p1"].status = "ok"
  /\ snap # <<>>
  /\ ret["p1"].session # <<>>
  /\ ret["p1"].session[1].expiresAt < frame["p1"].now


\* C23: whatever setSession and updateSessionExpiration of another caller
\* do meanwhile, a batch delete of deleteExpiredSessions removes no session
\* whose stored expiry, when it is deleted, is at or after the sweep time.
C23_SweepSparesExtended ==
  [][\A p \in Procs :
       pc[p] = "des_batch"
       => \A k \in DOMAIN table \ DOMAIN table' :
            StoredExpiry(table[k]) < SweepSeconds(frame[p])]_vars

\* C24: whatever setSession of another caller does meanwhile, a batch
\* delete of deleteUserSessions(u) removes no session that is stored for
\* another user than u when it is deleted.
C24_DeleteSparesOtherUser ==
  [][\A p \in Procs :
       pc[p] = "dus_batch"
       => \A k \in DOMAIN table \ DOMAIN table' :
            table[k]["Gs1Pk"] = [S |-> Str_UserHash \o frame[p].id]]_vars

============================================================================
